---- MODULE Spec2Model ----
(***************************************************************************)
(* PhysiCode: scalar fields (core/fields.py), iso-surface extraction       *)
(* (geometry/marching_cubes.py) and mesh analysis (geometry/industrial.py).*)
(*                                                                         *)
(* Numbers.  Coordinates, thicknesses and iso-values are whole numbers;    *)
(* the requests drawn by the actions are those whose linspace step         *)
(* (max - min) / (resolution - 1) is a whole number, so that every grid    *)
(* point is computed exactly as the code computes it.  Field values are    *)
(* float64 numbers within a few 2^-53 of a whole number; a value v is      *)
(* carried as the integer Whole(v) * One + Resid(v) (section float64), and *)
(* the sums, products and comparisons of the code are made on it with the  *)
(* rounding of IEEE 754.                                                   *)
(*                                                                         *)
(* Libraries.  The code calls numpy, scikit-image, scipy and trimesh.      *)
(* Their behaviour at the call sites is modelled as documented:            *)
(*  - numpy.linspace(a, b, n) raises ValueError for n < 0, is empty for    *)
(*    n = 0, is [a] for n = 1 and includes both endpoints for n >= 2;      *)
(*  - skimage.measure.marching_cubes(volume, level, *, spacing,            *)
(*    gradient_direction, step_size, allow_degenerate, method, mask) has   *)
(*    no parameter `origin`: a call that passes origin= raises TypeError   *)
(*    when the arguments are bound, before the function body runs;         *)
(*  - trimesh.Trimesh defines no __getitem__: mesh[...] raises TypeError;  *)
(*  - trimesh.Trimesh.bounds is None for a mesh without referenced         *)
(*    vertices;                                                            *)
(*  - Trimesh.remove_duplicate_faces and remove_unreferenced_vertices      *)
(*    exist and leave an empty mesh empty;                                 *)
(*  - whether scikit-image is installed, and whether qhull accepts a point *)
(*    set, are facts of the environment: both outcomes are explored;       *)
(*  - Trimesh.is_watertight is False for a mesh without faces and          *)
(*    otherwise says that every sorted edge row occurs exactly twice;      *)
(*    is_volume adds consistent winding and a positive volume; volume is   *)
(*    the signed surface integral, negative for an inside-out mesh;        *)
(*  - trimesh.creation.box(extents) is the centred box of 8 vertices and   *)
(*    12 outward-wound triangles.                                          *)
(*                                                                         *)
(* Units.  Volumes are carried as six times their value and areas as twice *)
(* their value (volume_x6, surface_area_x2), which keeps them whole.  The  *)
(* scale of a Gyroid or SchwarzP counts quarter turns per unit length:     *)
(* Gyroid(s, t) is the code's Gyroid(scale=s * np.pi / 2, thickness=t) and *)
(* SchwarzP(s, t) likewise, so that the scaled coordinates are whole       *)
(* multiples of float64(pi/2).  Coordinates, bounds, iso-values and        *)
(* thicknesses are the code's own numbers.                                 *)
(***************************************************************************)
EXTENDS Integers, Sequences, FiniteSets, TLC

(* ------------------------------ bounds -------------------------------- *)
MaxResolution == 3      \* requests use resolution in -1 .. MaxResolution
HalfWidth == 2          \* axis ranges are drawn from {-HalfWidth, 0, HalfWidth}
MaxIso == 1             \* iso_value in -MaxIso .. MaxIso
MaxHalfExtent == 2      \* boxes have extents 2*h per axis, h in 1 .. MaxHalfExtent
MaxThickness == 1       \* Gyroid and SchwarzP have thickness in 0 .. MaxThickness
MaxOffset == 5          \* field offsets are (0,0,0) and (MaxOffset,0,0); with
                        \* scale 0 the latter is the constant field +MaxOffset
MaxDensity == 2         \* material densities are 0 .. MaxDensity
MaxWallThickness == 1   \* wall thicknesses are None and -1 .. MaxWallThickness

(* ------------------------- program constants -------------------------- *)
DefaultBound == 5       \* bounds default to (-5.0, 5.0) on each axis
MinPoints == 4          \* the fallback needs at least 4 near-surface points
StdDivisor == 10        \* "near" means |v - iso| < 0.1 * std(values)

(* ---------------------------- sequences ------------------------------- *)
RECURSIVE SeqSum(_)
SeqSum(s) == IF s = <<>> THEN 0 ELSE Head(s) + SeqSum(Tail(s))

RECURSIVE Indices(_, _, _)
\* the positions lo..hi at which keep[k] holds, ascending (numpy boolean mask)
Indices(keep, lo, hi) ==
    IF lo > hi THEN <<>>
    ELSE (IF keep[lo] THEN <<lo>> ELSE <<>>) \o Indices(keep, lo + 1, hi)

\* F(v), the value v being computed once however often F uses it
Once(v, F(_)) == CHOOSE r \in {F(x) : x \in {v}} : TRUE

(* ------------------------------ float64 ------------------------------- *)
\* The field values of the model are float64 numbers within a few 2^-53 of
\* a whole number.  Such a value v is carried as the integer
\*     Whole(v) * One + Resid(v)
\* where Whole(v) is the whole number nearest to v and Resid(v) is
\* v - Whole(v) counted in units of 2^-53 / UlpParts.  The encoding keeps
\* the order of the values, their sums and their differences.
One == 1000000
UlpParts == 1000

\* pi/2 - float64(pi/2) = 6.1232e-17 = 0.55153 * 2^-53, in the units of Resid
HalfPiError == 552

Whole(v) == (v + One \div 2) \div One
Resid(v) == v - Whole(v) * One

\* np.abs
abs(v) == IF v < 0 THEN -v ELSE v

RECURSIVE Pow2Below(_)
\* the largest power of two that is <= a, for a >= 1
Pow2Below(a) == IF a < 2 THEN 1 ELSE 2 * Pow2Below(a \div 2)

\* r rounded to the nearest multiple of G, a tie going to the even multiple
RoundTo(r, G) ==
    LET q == r \div G
        rem == r - q * G
    IN  IF 2 * rem < G THEN q * G
        ELSE IF 2 * rem > G THEN (q + 1) * G
        ELSE IF q % 2 = 0 THEN q * G ELSE (q + 1) * G

\* The float64 nearest to v, v being the exact result of one addition or
\* subtraction (IEEE 754, round to nearest, ties to even).  From 2^e up to
\* 2^(e+1) the float64 numbers are 2^(e+1) * 2^-53 apart.  A value with
\* Whole(v) = 0 is smaller than 1e-14 and is a float64 to within 2^-100.
float64(v) ==
    Once(v, LAMBDA x :
        LET w == Whole(x)
            r == Resid(x)
        IN  IF w = 0 \/ r = 0 THEN x
            ELSE LET a == abs(w)
                     sign == IF w > 0 THEN 1 ELSE -1
                     rm == r * sign
                     p == Pow2Below(a)
                     spacing == IF rm < 0 /\ a = p THEN p ELSE 2 * p
                 IN  sign * (a * One + RoundTo(rm, spacing * UlpParts)))

\* The float64 product a * b where each factor is either a whole number or
\* smaller than 1e-14: a whole number times a float64 of that size is exact
\* to within 2^-100, and the product of two such small numbers, below 1e-28,
\* is lost in every sum the formulas below make of it.
times(a, b) ==
    Whole(a) * Whole(b) * One + Whole(a) * Resid(b) + Whole(b) * Resid(a)

(* ----------------------- core/fields.py: ScalarField ------------------ *)
\* ScalarField.__init__: the field object is its scale and its offset
__init__(scale, offset) == [scale |-> scale, offset |-> offset]

\* TestScalarField (tests/test_fields.py) adds nothing to ScalarField.__init__
TestScalarField(scale, offset) ==
    [kind |-> "TestScalarField"] @@ __init__(scale, offset)

(* ----------------------- core/tpms.py --------------------------------- *)
\* Gyroid.__init__ and SchwarzP.__init__: super().__init__(scale=scale), the
\* offset keeping its default, then self.thickness = thickness.  The scale
\* counts quarter turns per unit length: the code's scale is scale * np.pi / 2.
Gyroid(scale, thickness) ==
    [kind |-> "Gyroid", thickness |-> thickness] @@ __init__(scale, <<0, 0, 0>>)
SchwarzP(scale, thickness) ==
    [kind |-> "SchwarzP", thickness |-> thickness] @@ __init__(scale, <<0, 0, 0>>)

\* sine and cosine of q quarter turns
sin_quarter(q) == CASE q % 4 = 0 -> 0 [] q % 4 = 1 -> 1 [] q % 4 = 2 -> 0 [] OTHER -> -1
cos_quarter(q) == sin_quarter(q + 1)

\* np.sin and np.cos at the float64 q * float64(pi/2), q a whole number with
\* |q| <= 10 (the product is then exact).  The argument falls short of q
\* quarter turns by q * HalfPiError, which the functions return to first
\* order: np.sin(np.pi) = 1.2246e-16 = 2 * 6.1232e-17, np.cos(np.pi/2) =
\* 6.1232e-17, np.sin(np.pi/2) = 1.0.
sin(q) == sin_quarter(q) * One - cos_quarter(q) * q * HalfPiError
cos(q) == cos_quarter(q) * One + sin_quarter(q) * q * HalfPiError

\* the base formulas (tpms.py lines 79-81 and 153), summed left to right
GyroidFormula(p) ==
    float64(float64(times(sin(p[1]), cos(p[2])) + times(sin(p[2]), cos(p[3])))
            + times(sin(p[3]), cos(p[1])))
SchwarzPFormula(p) == float64(float64(cos(p[1]) + cos(p[2])) + cos(p[3]))

\* Variant of Gyroid_evaluate: the thickness is subtracted without abs()
Gyroid_evaluate_signed(field, p) ==
    IF field.thickness > 0
    THEN float64(GyroidFormula(p) - field.thickness * One)
    ELSE GyroidFormula(p)

\* Gyroid.evaluate (lines 58-88); p counts quarter turns
Gyroid_evaluate(field, p) ==
    LET value == GyroidFormula(p)
    IN  IF field.thickness > 0
        THEN float64(abs(value) - field.thickness * One)
        ELSE value

\* SchwarzP.evaluate (lines 132-160); p counts quarter turns
SchwarzP_evaluate(field, p) ==
    LET value == SchwarzPFormula(p)
    IN  IF field.thickness > 0
        THEN float64(abs(value) - field.thickness * One)
        ELSE value

\* field.evaluate(x, y, z), dispatched on the field's class;
\* TestScalarField.evaluate (tests/test_fields.py) is x + y + z, a whole
\* number at whole coordinates
evaluate(field, p) ==
    CASE field.kind = "Gyroid" -> Gyroid_evaluate(field, p)
      [] field.kind = "SchwarzP" -> SchwarzP_evaluate(field, p)
      [] OTHER -> (p[1] + p[2] + p[3]) * One

\* Variant of __call__: the offset is added before the scaling
__call___offset_first(field, p) ==
    evaluate(field, <<(p[1] + field.offset[1]) * field.scale,
                      (p[2] + field.offset[2]) * field.scale,
                      (p[3] + field.offset[3]) * field.scale>>)

\* ScalarField.__call__: the affine transform, then evaluate
__call__(field, p) ==
    LET x_scaled == p[1] * field.scale + field.offset[1]
        y_scaled == p[2] * field.scale + field.offset[2]
        z_scaled == p[3] * field.scale + field.offset[3]
    IN  evaluate(field, <<x_scaled, y_scaled, z_scaled>>)

\* The callable form applied elementwise to equal-length coordinate arrays
call_array(field, pts) ==
    [k \in 1..Len(pts) |-> __call__(field, pts[k])]

(* ------------------------------ numpy --------------------------------- *)
\* np.linspace(start, stop, num) for num >= 0 (num < 0 raises ValueError)
linspace(start, stop, num) ==
    IF num = 0 THEN <<>>
    ELSE IF num = 1 THEN <<start>>
    ELSE LET step == (stop - start) \div (num - 1)
         IN  [i \in 1..num |-> start + (i - 1) * step]

\* Variant of meshgrid_ij: np.meshgrid's default indexing='xy', in which the
\* first two axes change places: flat index k = iy*nx*nz + ix*nz + iz
meshgrid_xy(x, y, z) ==
    LET nx == Len(x)
        ny == Len(y)
        nz == Len(z)
    IN  [k \in 1..(nx * ny * nz) |->
            << x[(((k - 1) \div nz) % nx) + 1],
               y[((k - 1) \div (nx * nz)) + 1],
               z[((k - 1) % nz) + 1] >>]

\* np.meshgrid(x, y, z, indexing='ij'), ravelled in C order:
\* flat index k = ix*ny*nz + iy*nz + iz  (0-based)
meshgrid_ij(x, y, z) ==
    LET nx == Len(x)
        ny == Len(y)
        nz == Len(z)
    IN  [k \in 1..(nx * ny * nz) |->
            << x[((k - 1) \div (ny * nz)) + 1],
               y[(((k - 1) \div nz) % ny) + 1],
               z[((k - 1) % nz) + 1] >>]

(* ------------------------------ trimesh ------------------------------- *)
\* trimesh.Trimesh(): no vertices, no faces.  Faces hold 0-based indices.
EmptyTrimesh == [vertices |-> <<>>, faces |-> <<>>]

FaceSet(f) == {f[1], f[2], f[3]}

\* Trimesh.remove_duplicate_faces: of the faces with the same vertex set
\* only the first is kept
remove_duplicate_faces(mesh) ==
    LET F == mesh.faces
        keep == [k \in 1..Len(F) |->
                    \A j \in 1..(k - 1) : FaceSet(F[j]) # FaceSet(F[k])]
        idx == Indices(keep, 1, Len(F))
    IN  [vertices |-> mesh.vertices,
         faces |-> [k \in 1..Len(idx) |-> F[idx[k]]]]

\* Trimesh.remove_unreferenced_vertices: drop the vertices no face uses and
\* renumber the faces
remove_unreferenced_vertices(mesh) ==
    LET V == mesh.vertices
        F == mesh.faces
        referenced == [k \in 1..Len(V) |->
                          \E j \in 1..Len(F) : (k - 1) \in FaceSet(F[j])]
        idx == Indices(referenced, 1, Len(V))
        inverse(v) == (CHOOSE k \in 1..Len(idx) : idx[k] = v + 1) - 1
    IN  [vertices |-> [k \in 1..Len(idx) |-> V[idx[k]]],
         faces |-> [j \in 1..Len(F) |->
                      <<inverse(F[j][1]), inverse(F[j][2]), inverse(F[j][3])>>]]

\* Trimesh.__getitem__ does not exist: subscripting a mesh raises TypeError
\* whatever the key is
Trimesh_getitem(mesh, key) == [raised |-> TRUE, exc |-> "TypeError", mesh |-> EmptyTrimesh]

\* geometry.triangulate_quads, applied by the Trimesh constructor to faces
\* with four columns: [a,b,c,d] becomes [a,b,c] and [c,d,a], first halves
\* stacked before second halves
triangulate_quads(quads) ==
    [k \in 1..Len(quads) |-> <<quads[k][1], quads[k][2], quads[k][3]>>] \o
    [k \in 1..Len(quads) |-> <<quads[k][3], quads[k][4], quads[k][1]>>]

\* Trimesh.merge_vertices, run by the constructor (process=True): vertices no
\* face uses are dropped (all are kept when there are no faces), vertices
\* at the same position become one, and the faces are renumbered
merge_vertices(mesh) ==
    LET V == mesh.vertices
        F == mesh.faces
        referenced(v) == F = <<>> \/ \E j \in 1..Len(F) : v \in FaceSet(F[j])
        first(v) == CHOOSE u \in 0..v :
                       /\ referenced(u) /\ V[u + 1] = V[v + 1]
                       /\ \A w \in 0..(u - 1) : ~(referenced(w) /\ V[w + 1] = V[v + 1])
        unique == [k \in 1..Len(V) |-> referenced(k - 1) /\ first(k - 1) = k - 1]
        idx == Indices(unique, 1, Len(V))
        inverse(v) == (CHOOSE k \in 1..Len(idx) : idx[k] = first(v) + 1) - 1
    IN  [vertices |-> [k \in 1..Len(idx) |-> V[idx[k]]],
         faces |-> [j \in 1..Len(F) |->
                      <<inverse(F[j][1]), inverse(F[j][2]), inverse(F[j][3])>>]]

\* trimesh.Trimesh(vertices=points, faces=simplices)
Trimesh(vertices, faces) ==
    merge_vertices([vertices |-> vertices, faces |-> triangulate_quads(faces)])

\* Trimesh.bounds: min and max corner of the referenced vertices, or None
\* (here <<>>) when no vertex is referenced
Trimesh_bounds(mesh) ==
    LET used == UNION {FaceSet(mesh.faces[j]) : j \in 1..Len(mesh.faces)}
        P == {mesh.vertices[v + 1] : v \in used}
        lo(a) == CHOOSE m \in {p[a] : p \in P} : \A p \in P : m <= p[a]
        hi(a) == CHOOSE m \in {p[a] : p \in P} : \A p \in P : m >= p[a]
    IN  IF P = {} THEN <<>>
        ELSE << <<lo(1), lo(2), lo(3)>>, <<hi(1), hi(2), hi(3)>> >>

(* ------------------------------- scipy -------------------------------- *)
\* scipy.spatial.Delaunay(points).simplices when qhull accepts the points:
\* rows of four point indices.  The rows stand in for qhull's tetrahedra;
\* the code never observes them (line 142 raises before the mesh is used).
Delaunay(points) ==
    [k \in 1..(Len(points) - 3) |->
        IF k = 1 THEN <<0, 1, 2, 3>> ELSE <<2, 3, 0, k + 2>>]

(* ------------------ geometry/marching_cubes.py ------------------------ *)
\* Line 58: the bounds taken when the caller gives None, (-5.0, 5.0) per axis
DefaultBounds ==
    << <<-DefaultBound, DefaultBound>>,
       <<-DefaultBound, DefaultBound>>,
       <<-DefaultBound, DefaultBound>> >>

\* Lines 120-125 (and 65-72): the sampling grid and the field on it
SampleGrid(bounds, resolution) ==
    meshgrid_ij(linspace(bounds[1][1], bounds[1][2], resolution),
                linspace(bounds[2][1], bounds[2][2], resolution),
                linspace(bounds[3][1], bounds[3][2], resolution))

\* Line 128: mask = |v - iso| < 0.1 * std(v), with std the population
\* standard deviation of the samples.  On an empty grid std is nan and the
\* mask is empty.
\*  - Where the whole parts of the samples differ, std exceeds 0.1 and the
\*    comparison is decided by the whole parts; squared and cleared of
\*    fractions it is (10 * |w - iso|)^2 * N^2 < N * sum(w^2) - (sum w)^2.
\*    (The two sides are never equal: a whole distance of 1 or more would
\*    need std >= 10.)
\*  - Where every sample has the same whole part W, std is the deviation of
\*    the rounding residues, of the size of 2^-53: a sample with W # iso is
\*    not near, and with W = iso the comparison is made on the residues r,
\*    100 * N * r^2 < sum((r - mean)^2), taken to a hundredth of 2^-53, which
\*    keeps the sums within 32 bits.
NearIsoMask(values, iso_value) ==
    LET N == Len(values)
    IN  IF N = 0 THEN <<>>
        ELSE
          Once([k \in 1..N |-> Whole(values[k])], LAMBDA W :
          Once(N * SeqSum([k \in 1..N |-> W[k] * W[k]]) - SeqSum(W) * SeqSum(W),
               LAMBDA spread :
            IF spread > 0
            THEN [k \in 1..N |->
                    StdDivisor * StdDivisor * (W[k] - iso_value) * (W[k] - iso_value)
                        * N * N
                    < spread]
            ELSE
              Once([k \in 1..N |-> (Resid(values[k]) + 5) \div 10], LAMBDA R :
              Once((2 * SeqSum(R) + N) \div (2 * N), LAMBDA M :
              Once(SeqSum([k \in 1..N |-> (R[k] - M) * (R[k] - M)]), LAMBDA SS :
                [k \in 1..N |->
                    /\ W[k] = iso_value
                    /\ SS > 0
                    /\ R[k] * R[k] <= (SS - 1) \div (StdDivisor * StdDivisor * N)])))))

\* Lines 115-129: the grid points near the iso-surface, in grid order
NearPoints(field, resolution, iso_value, bounds) ==
    Once(SampleGrid(bounds, resolution), LAMBDA grid :
    Once(call_array(field, grid), LAMBDA field_values :
    Once(Indices(NearIsoMask(field_values, iso_value), 1, Len(grid)), LAMBDA idx :
        [k \in 1..Len(idx) |-> grid[idx[k]]])))

\* _marching_cubes_simple (lines 104-147).  delaunay_raises: qhull rejects
\* the point set (QhullError, caught by the bare except).
\* Result: the mesh returned and the branch that returned it.
_marching_cubes_simple(field, resolution, iso_value, bounds, delaunay_raises) ==
    Once(NearPoints(field, resolution, iso_value, bounds), LAMBDA points :
        IF Len(points) < MinPoints
        THEN [mesh |-> EmptyTrimesh, branch |-> "few_points"]
        ELSE IF delaunay_raises
        THEN [mesh |-> EmptyTrimesh, branch |-> "delaunay_failed"]
        ELSE LET built == Trimesh(points, Delaunay(points))
                 kept == Trimesh_getitem(built, "area > 1e-10")
             IN  IF kept.raised
                 THEN [mesh |-> EmptyTrimesh, branch |-> "subscript_failed"]
                 ELSE [mesh |-> kept.mesh, branch |-> "triangulated"])

\* Lines 78-87: the call of measure.marching_cubes.  The arguments are
\* evaluated first (the spacing divides by resolution - 1), then bound to the
\* parameters, which fails on the keyword `origin`.
marching_cubes_call(field_values, resolution, iso_value, bounds) ==
    IF resolution - 1 = 0
    THEN [raised |-> TRUE, exc |-> "ZeroDivisionError", mesh |-> EmptyTrimesh]
    ELSE [raised |-> TRUE, exc |-> "TypeError", mesh |-> EmptyTrimesh]

\* Lines 97-101: the clean-up of the mesh
cleanup(mesh) == remove_unreferenced_vertices(remove_duplicate_faces(mesh))

Raised(exc, calls, path, values) ==
    [status |-> "raised", exc |-> exc, mesh |-> EmptyTrimesh, raw |-> EmptyTrimesh,
     evaluate_calls |-> calls, path |-> path, branch |-> "none",
     cleaned |-> FALSE, field_values |-> values]

\* Variant of generate_mesh: the except clause of line 92 catches every
\* exception, so the fallback also replaces a failed extractor call
generate_mesh_catch_all(field, resolution, iso_value, bounds, skimage_installed, delaunay_raises) ==
    LET b == IF bounds = <<>> THEN DefaultBounds ELSE bounds
    IN  IF resolution < 0
        THEN Raised("ValueError", 0, "none", <<>>)
        ELSE
          LET field_values == call_array(field, SampleGrid(b, resolution))
              fb == _marching_cubes_simple(field, resolution, iso_value, b,
                                           delaunay_raises)
          IN  [status |-> "returned", exc |-> "none",
               mesh |-> cleanup(fb.mesh), raw |-> fb.mesh,
               evaluate_calls |-> 2,
               path |-> "fallback", branch |-> fb.branch,
               cleaned |-> TRUE, field_values |-> field_values]

\* generate_mesh (lines 20-101).  bounds = <<>> stands for None.
\* skimage_installed: `from skimage import measure` succeeds.
\* Result: status "returned" with the mesh, or "raised" with the exception;
\* raw is the mesh as it entered the clean-up, evaluate_calls counts the
\* calls of field.evaluate made on the way, field_values is the sampled grid.
generate_mesh(field, resolution, iso_value, bounds, skimage_installed, delaunay_raises) ==
    LET b == IF bounds = <<>> THEN DefaultBounds ELSE bounds
    IN  IF resolution < 0
        THEN Raised("ValueError", 0, "none", <<>>)
        ELSE
          Once(call_array(field, SampleGrid(b, resolution)), LAMBDA field_values :
              IF skimage_installed
              THEN LET mc == marching_cubes_call(field_values, resolution, iso_value, b)
                   IN  IF mc.raised
                       THEN Raised(mc.exc, 1, "primary", field_values)
                       ELSE [status |-> "returned", exc |-> "none",
                             mesh |-> cleanup(mc.mesh), raw |-> mc.mesh,
                             evaluate_calls |-> 1,
                             path |-> "primary", branch |-> "marching_cubes",
                             cleaned |-> TRUE, field_values |-> field_values]
              ELSE Once(_marching_cubes_simple(field, resolution, iso_value, b,
                                               delaunay_raises), LAMBDA fb :
                       [status |-> "returned", exc |-> "none",
                        mesh |-> cleanup(fb.mesh), raw |-> fb.mesh,
                        evaluate_calls |-> 2,
                        path |-> "fallback", branch |-> fb.branch,
                        cleaned |-> TRUE, field_values |-> field_values]))

(* ------------------ core/fields.py: evaluate_grid --------------------- *)
\* ScalarField.evaluate_grid (lines 107-141)
evaluate_grid(field, x_range, y_range, z_range, resolution) ==
    IF resolution < 0
    THEN [status |-> "raised", exc |-> "ValueError", coords |-> <<>>, values |-> <<>>]
    ELSE LET coords == SampleGrid(<<x_range, y_range, z_range>>, resolution)
         IN  [status |-> "returned", exc |-> "none", coords |-> coords,
              values |-> call_array(field, coords)]

(* ------------------ geometry/industrial.py ---------------------------- *)
ZeroBox == [x |-> <<0, 0>>, y |-> <<0, 0>>, z |-> <<0, 0>>]

\* calculate_bounding_box (lines 46-76): subscripting bounds = None raises
calculate_bounding_box(mesh) ==
    LET bounds == Trimesh_bounds(mesh)
    IN  IF bounds = <<>>
        THEN [raised |-> TRUE, exc |-> "TypeError", bbox |-> ZeroBox]
        ELSE [raised |-> FALSE, exc |-> "none",
              bbox |-> [x |-> <<bounds[1][1], bounds[2][1]>>,
                        y |-> <<bounds[1][2], bounds[2][2]>>,
                        z |-> <<bounds[1][3], bounds[2][3]>>]]

\* Variant of calculate_dimensions: height and depth read the wrong axes
calculate_dimensions_swapped(bbox) ==
    [width |-> bbox.x[2] - bbox.x[1],
     height |-> bbox.z[2] - bbox.z[1],
     depth |-> bbox.y[2] - bbox.y[1]]

\* calculate_dimensions (lines 79-106), on a bounding box
calculate_dimensions(bbox) ==
    [width |-> bbox.x[2] - bbox.x[1],
     height |-> bbox.y[2] - bbox.y[1],
     depth |-> bbox.z[2] - bbox.z[1]]

(* ---------------- trimesh: topology, area and volume ------------------ *)
\* Trimesh.edges: faces[:, [0,1,1,2,2,0]].reshape(-1, 2), three directed
\* edges per face, in face order
Trimesh_edges(mesh) ==
    [k \in 1..(3 * Len(mesh.faces)) |->
        LET f == mesh.faces[((k - 1) \div 3) + 1]
            c == (k - 1) % 3
        IN  <<f[c + 1], f[((c + 1) % 3) + 1]>>]

\* Trimesh.edges_sorted: np.sort(edges, axis=1)
edges_sorted(e) == IF e[1] <= e[2] THEN e ELSE <<e[2], e[1]>>

\* the rows of edges_sorted equal to row k (grouping.group_rows)
EdgeGroup(S, k) == {i \in 1..Len(S) : S[i] = S[k]}

\* Variant of Trimesh_is_watertight: only boundary edges are looked for, so
\* an edge shared by three faces passes
Trimesh_is_watertight_no_boundary(mesh) ==
    LET E == Trimesh_edges(mesh)
        S == [k \in 1..Len(E) |-> edges_sorted(E[k])]
    IN  /\ Len(mesh.faces) > 0
        /\ \A k \in 1..Len(S) : Cardinality(EdgeGroup(S, k)) >= 2

\* Trimesh.is_watertight: False for a mesh without faces; otherwise
\* graph.is_watertight: the groups of exactly two equal sorted edges cover
\* every edge
Trimesh_is_watertight(mesh) ==
    LET E == Trimesh_edges(mesh)
        S == [k \in 1..Len(E) |-> edges_sorted(E[k])]
    IN  /\ Len(mesh.faces) > 0
        /\ \A k \in 1..Len(S) : Cardinality(EdgeGroup(S, k)) = 2

\* Trimesh.is_winding_consistent: in every group of two, the second index
\* of the first edge equals the first index of the second edge, i.e. the
\* two faces traverse their common edge in opposite directions
Trimesh_is_winding_consistent(mesh) ==
    LET E == Trimesh_edges(mesh)
        S == [k \in 1..Len(E) |-> edges_sorted(E[k])]
    IN  /\ Len(mesh.faces) > 0
        /\ \A i \in 1..Len(E) : \A k \in (i + 1)..Len(E) :
              (S[i] = S[k] /\ EdgeGroup(S, i) = {i, k}) => E[i][2] = E[k][1]

Cross(u, v) ==
    <<u[2] * v[3] - u[3] * v[2], u[3] * v[1] - u[1] * v[3], u[1] * v[2] - u[2] * v[1]>>
Dot(u, v) == u[1] * v[1] + u[2] * v[2] + u[3] * v[3]
Minus(u, v) == <<u[1] - v[1], u[2] - v[2], u[3] - v[3]>>
AbsInt(n) == IF n < 0 THEN -n ELSE n

\* the Euclidean norm of an integer vector whose norm is a whole number
Norm(u) ==
    CHOOSE r \in 0..(AbsInt(u[1]) + AbsInt(u[2]) + AbsInt(u[3])) : r * r = Dot(u, u)

\* Trimesh.triangles: the three corner positions of every face
Trimesh_triangles(mesh) ==
    [j \in 1..Len(mesh.faces) |->
        [c \in 1..3 |-> mesh.vertices[mesh.faces[j][c] + 1]]]

\* Variant of Trimesh_area_x2: the sum stops one face short
Trimesh_area_x2_short(mesh) ==
    LET T == Trimesh_triangles(mesh)
    IN  SeqSum([j \in 1..(Len(T) - 1) |-> Norm(Cross(Minus(T[j][2], T[j][1]),
                                                      Minus(T[j][3], T[j][1])))])

\* Trimesh.area, doubled: the sum over the faces of |(b - a) x (c - a)|
\* (the area of a face is half the norm of its cross product)
Trimesh_area_x2(mesh) ==
    LET T == Trimesh_triangles(mesh)
    IN  SeqSum([j \in 1..Len(T) |-> Norm(Cross(Minus(T[j][2], T[j][1]),
                                                Minus(T[j][3], T[j][1])))])

\* Trimesh.volume, times six: the surface integral of triangles.mass_properties,
\* the sum over the faces of a . (b x c); negative for an inside-out mesh
Trimesh_volume_x6(mesh) ==
    LET T == Trimesh_triangles(mesh)
    IN  SeqSum([j \in 1..Len(T) |-> Dot(T[j][1], Cross(T[j][2], T[j][3]))])

\* Variant of Trimesh_is_volume: the sign of the volume is not looked at
Trimesh_is_volume_unsigned(mesh) ==
    /\ Trimesh_is_watertight(mesh)
    /\ Trimesh_is_winding_consistent(mesh)
    /\ Trimesh_volume_x6(mesh) # 0

\* Trimesh.is_volume: watertight, consistently wound, finite centre of mass
\* (the centre of mass divides by the volume) and positive volume
Trimesh_is_volume(mesh) ==
    /\ Trimesh_is_watertight(mesh)
    /\ Trimesh_is_winding_consistent(mesh)
    /\ Trimesh_volume_x6(mesh) # 0
    /\ Trimesh_volume_x6(mesh) > 0

(* ------------------ geometry/industrial.py (continued) ---------------- *)
\* calculate_volume (lines 15-43), times six
calculate_volume(mesh) ==
    IF ~Trimesh_is_volume(mesh) THEN 0 ELSE Trimesh_volume_x6(mesh)

\* analyze_geometry (lines 109-154): the bounding box is computed first
\* (line 140), so its exception is the call's outcome.  volume_x6 is six
\* times 'volume' and surface_area_x2 twice 'surface_area'.
analyze_geometry(mesh) ==
    LET bb == calculate_bounding_box(mesh)
    IN  IF bb.raised
        THEN [status |-> "raised", exc |-> bb.exc,
              volume_x6 |-> 0, surface_area_x2 |-> 0, bbox |-> ZeroBox,
              dimensions |-> calculate_dimensions(ZeroBox),
              is_watertight |-> FALSE, is_volume |-> FALSE,
              vertex_count |-> 0, face_count |-> 0, edge_count |-> 0]
        ELSE [status |-> "returned", exc |-> "none",
              volume_x6 |-> calculate_volume(mesh),
              surface_area_x2 |-> Trimesh_area_x2(mesh),
              bbox |-> bb.bbox,
              dimensions |-> calculate_dimensions(bb.bbox),
              is_watertight |-> Trimesh_is_watertight(mesh),
              is_volume |-> Trimesh_is_volume(mesh),
              vertex_count |-> Len(mesh.vertices),
              face_count |-> Len(mesh.faces),
              edge_count |-> Len(Trimesh_edges(mesh))]

\* Variant of estimate_material_usage: the shell branch is taken whenever a
\* wall thickness is given, whatever its sign
estimate_material_usage_any_thickness(mesh, material_density, wall_thickness) ==
    LET volume_x6 == calculate_volume(mesh)
        material_volume_x6 ==
            IF wall_thickness # <<>>
            THEN 3 * Trimesh_area_x2(mesh) * wall_thickness[1]
            ELSE volume_x6
    IN  [volume_x6 |-> volume_x6,
         material_volume_x6 |-> material_volume_x6,
         mass_x6000 |-> material_volume_x6 * material_density,
         density |-> material_density]

\* estimate_material_usage (lines 157-209).  wall_thickness is <<>> for None
\* and <<t>> for the number t.  volume_x6 and material_volume_x6 are six
\* times 'volume' and 'material_volume' (surface area times thickness is
\* three times area_x2 times thickness, on that scale); mass_x6000 is 6000
\* times 'mass', i.e. six times the material volume times the density, the
\* division by 1000.0 being carried in the unit.
estimate_material_usage(mesh, material_density, wall_thickness) ==
    LET volume_x6 == calculate_volume(mesh)
        material_volume_x6 ==
            IF wall_thickness # <<>> /\ wall_thickness[1] > 0
            THEN 3 * Trimesh_area_x2(mesh) * wall_thickness[1]
            ELSE volume_x6
    IN  [volume_x6 |-> volume_x6,
         material_volume_x6 |-> material_volume_x6,
         mass_x6000 |-> material_volume_x6 * material_density,
         density |-> material_density]

(* ------------- meshes handed directly to the analysis ----------------- *)
\* trimesh.creation.box(extents): the corners of the unit cube, centred on
\* the origin and scaled by the extents; twelve outward-wound triangles.
\* Extents are even so that the corners (+-extent/2) are whole numbers.
BoxFaces ==
    << <<1, 3, 0>>, <<4, 1, 0>>, <<0, 3, 2>>, <<2, 4, 0>>, <<1, 7, 3>>, <<5, 1, 4>>,
       <<5, 7, 1>>, <<3, 7, 2>>, <<6, 4, 2>>, <<2, 7, 6>>, <<6, 5, 4>>, <<7, 5, 6>> >>

box(extents) ==
    [vertices |-> [k \in 1..8 |->
                    << (2 * (((k - 1) \div 4) % 2) - 1) * (extents[1] \div 2),
                       (2 * (((k - 1) \div 2) % 2) - 1) * (extents[2] \div 2),
                       (2 * ((k - 1) % 2) - 1) * (extents[3] \div 2) >>],
     faces |-> BoxFaces]

\* Trimesh.invert: every face is traversed the other way round
invert(mesh) ==
    [vertices |-> mesh.vertices,
     faces |-> [j \in 1..Len(mesh.faces) |->
                  <<mesh.faces[j][3], mesh.faces[j][2], mesh.faces[j][1]>>]]

\* Trimesh.update_faces(mask) with mask False at face k only: face k is removed
without_face(mesh, k) ==
    [vertices |-> mesh.vertices,
     faces |-> [j \in 1..(Len(mesh.faces) - 1) |->
                  IF j < k THEN mesh.faces[j] ELSE mesh.faces[j + 1]]]

\* the mesh with face k alone traversed the other way round
with_face_flipped(mesh, k) ==
    [vertices |-> mesh.vertices,
     faces |-> [j \in 1..Len(mesh.faces) |->
                  IF j = k THEN <<mesh.faces[j][3], mesh.faces[j][2], mesh.faces[j][1]>>
                  ELSE mesh.faces[j]]]

\* the mesh with face k listed a second time
with_face_twice(mesh, k) ==
    [vertices |-> mesh.vertices, faces |-> Append(mesh.faces, mesh.faces[k])]

Shapes == {"box", "inverted", "open", "flipped", "doubled"}

Shaped(shape, extents, k) ==
    CASE shape = "box" -> box(extents)
      [] shape = "inverted" -> invert(box(extents))
      [] shape = "open" -> without_face(box(extents), k)
      [] shape = "flipped" -> with_face_flipped(box(extents), k)
      [] shape = "doubled" -> with_face_twice(box(extents), k)
      [] OTHER -> EmptyTrimesh

\* the vertex list rearranged by the permutation pi (vertex v moves to
\* position pi[v + 1]), the face indices following their vertices
permute_vertices(mesh, pi) ==
    LET n == Len(mesh.vertices)
        from(k) == CHOOSE v \in 1..n : pi[v] = k - 1
    IN  [vertices |-> [k \in 1..n |-> mesh.vertices[from(k)]],
         faces |-> [j \in 1..Len(mesh.faces) |->
                      [c \in 1..3 |-> pi[mesh.faces[j][c] + 1]]]]

\* the face list rearranged: position k holds the former face order[k]
reorder_faces(mesh, order) ==
    [vertices |-> mesh.vertices,
     faces |-> [k \in 1..Len(mesh.faces) |-> mesh.faces[order[k]]]]

Reversal(n) == [k \in 1..n |-> n - k]
Rotation(n) == [k \in 1..n |-> k % n]
Rearrangements == {"reverse_vertices", "rotate_vertices", "reverse_faces",
                   "rotate_faces", "reverse_both"}

Rearranged(mesh, how) ==
    LET n == Len(mesh.vertices)
        m == Len(mesh.faces)
    IN  CASE how = "reverse_vertices" -> permute_vertices(mesh, Reversal(n))
          [] how = "rotate_vertices" -> permute_vertices(mesh, Rotation(n))
          [] how = "reverse_faces" -> reorder_faces(mesh, [k \in 1..m |-> m + 1 - k])
          [] how = "rotate_faces" -> reorder_faces(mesh, [k \in 1..m |-> (k % m) + 1])
          [] how = "reverse_both" ->
                reorder_faces(permute_vertices(mesh, Reversal(n)),
                              [k \in 1..m |-> m + 1 - k])
          [] OTHER -> mesh

(* ------------------------------- state -------------------------------- *)
VARIABLES
    field,              \* the ScalarField object the caller constructed
    skimage_installed,  \* whether `from skimage import measure` succeeds
    request,            \* the call in progress: op and its arguments
    gm,                 \* outcome of the generate_mesh call
    grid,               \* outcome of the evaluate_grid call
    analysis,           \* outcome of the analyze_geometry call
    held,               \* a mesh the caller built itself, and its calculate_volume
    rearranged,         \* the same mesh with vertices or faces rearranged, analysed
    usage,              \* outcome of the estimate_material_usage call
    session_state,      \* st.session_state of the interactive app
    rerun               \* the app's latest script run: widget values, what it did

vars == <<field, skimage_installed, request, gm, grid, analysis, held, rearranged,
          usage, session_state, rerun>>

Resolutions == (-1)..MaxResolution
IsoValues == (-MaxIso)..MaxIso
AxisRanges == { <<-HalfWidth, HalfWidth>>, <<0, HalfWidth>>,
                <<HalfWidth, HalfWidth>>, <<HalfWidth, -HalfWidth>> }
\* bounds given to generate_mesh: None, three ranges with min < max, or such
\* bounds with one axis replaced by an empty or reversed range
ProperRanges == { <<-HalfWidth, HalfWidth>>, <<0, HalfWidth>> }
BoundsChoices ==
    {<<>>} \cup (ProperRanges \X ProperRanges \X ProperRanges)
    \cup { [<< <<-HalfWidth, HalfWidth>>, <<-HalfWidth, HalfWidth>>,
                <<-HalfWidth, HalfWidth>> >> EXCEPT ![a] = r] :
              a \in 1..3, r \in AxisRanges \ ProperRanges }
Fields ==
    { TestScalarField(s, o) : s \in {0, 1}, o \in { <<0, 0, 0>>, <<MaxOffset, 0, 0>> } }
    \cup { Gyroid(1, t) : t \in 0..MaxThickness }
    \cup { SchwarzP(1, t) : t \in 0..MaxThickness }

\* the linspace step of every axis is a whole number
ExactStep(bounds, resolution) ==
    LET b == IF bounds = <<>> THEN DefaultBounds ELSE bounds
    IN  resolution >= 2 =>
          \A a \in 1..3 : (b[a][2] - b[a][1]) % (resolution - 1) = 0

NoRequest ==
    [op |-> "none", resolution |-> 0, iso_value |-> 0, bounds |-> <<>>,
     delaunay_raises |-> FALSE]
NoMeshOutcome ==
    [status |-> "none", exc |-> "none", mesh |-> EmptyTrimesh, raw |-> EmptyTrimesh,
     evaluate_calls |-> 0, path |-> "none", branch |-> "none",
     cleaned |-> FALSE, field_values |-> <<>>]
NoGridOutcome ==
    [status |-> "none", exc |-> "none", coords |-> <<>>, values |-> <<>>]
NoAnalysis ==
    [status |-> "none", exc |-> "none", bbox |-> ZeroBox,
     volume_x6 |-> 0, surface_area_x2 |-> 0,
     dimensions |-> calculate_dimensions(ZeroBox),
     is_watertight |-> FALSE, is_volume |-> FALSE,
     vertex_count |-> 0, face_count |-> 0, edge_count |-> 0]

NoHeld ==
    [shape |-> "none", extents |-> <<0, 0, 0>>, k |-> 0, mesh |-> EmptyTrimesh,
     volume_x6 |-> 0]
NoRearranged == [how |-> "none", mesh |-> EmptyTrimesh, analysis |-> NoAnalysis]
\* the meshes the caller hands to the analysis: the empty mesh, the boxes of
\* trimesh.creation.box, and each box inside out, with one face removed, with
\* one face flipped or with one face listed twice
HalfExtents == 1..MaxHalfExtent
BoxExtents ==
    {<<2 * hx, 2 * hy, 2 * hz>> : hx \in HalfExtents, hy \in HalfExtents, hz \in HalfExtents}
HeldMeshes ==
    {[shape |-> "empty", extents |-> <<0, 0, 0>>, k |-> 0]} \cup
    [shape : {"box", "inverted"}, extents : BoxExtents, k : {0}] \cup
    [shape : {"open", "flipped", "doubled"}, extents : BoxExtents, k : 1..Len(BoxFaces)]

\* the calls of estimate_material_usage: one mesh of each shape and size, a
\* density (0 included, the function checks nothing), and a wall thickness
\* that is None, negative, zero or positive
UsageMeshes ==
    {[shape |-> "empty", extents |-> <<0, 0, 0>>, k |-> 0]} \cup
    [shape : {"box", "inverted"}, extents : BoxExtents, k : {0}] \cup
    [shape : {"open", "flipped", "doubled"}, extents : BoxExtents, k : {1}]
Densities == 0..MaxDensity
WallThicknesses == {<<>>} \cup {<<t>> : t \in (-1)..MaxWallThickness}
NoUsage ==
    [shape |-> "none", extents |-> <<0, 0, 0>>, mesh |-> EmptyTrimesh,
     wall_thickness |-> <<>>,
     result |-> [volume_x6 |-> 0, material_volume_x6 |-> 0, mass_x6000 |-> 0,
                 density |-> 0]]

(* ------------------------------ app/main.py --------------------------- *)
\* st.session_state.  The key 'mesh' is absent, holds None or holds a mesh;
\* the key 'field' is absent or holds a primitive type.  value is the empty
\* mesh (the empty string) where the key holds none.
NewSession ==
    [mesh |-> [key |-> "absent", value |-> EmptyTrimesh],
     field |-> [key |-> "absent", value |-> ""]]
MeshIsNone == [key |-> "None", value |-> EmptyTrimesh]

\* the sidebar widgets (lines 38-105).  The sliders' values are scaled down:
\* the resolution slider (20 .. 100) is 2 .. MaxResolution here, thickness
\* and iso-value are whole numbers from 0 up, the scale (1.0 .. 20.0) stays
\* at one quarter turn per unit length, pi/2; the three range sliders are
\* left at their default, (-5.0, 5.0).  The run reads of generate_mesh only
\* whether it raised and how many vertices its mesh has.
PrimitiveTypes == {"Gyroid TPMS", "Schwarz P TPMS"}
AppResolutions == 2..MaxResolution
WidgetKeys ==
    {"primitive_type", "scale", "thickness", "resolution", "iso_value",
     "bounds_x", "bounds_y", "bounds_z"}
\* the widgets' values on the first script run
DefaultWidgets ==
    [primitive_type |-> "Gyroid TPMS", scale |-> 1, thickness |-> 0,
     resolution |-> 2, iso_value |-> 0,
     bounds_x |-> <<-DefaultBound, DefaultBound>>,
     bounds_y |-> <<-DefaultBound, DefaultBound>>,
     bounds_z |-> <<-DefaultBound, DefaultBound>>]
WidgetValues(key) ==
    CASE key = "primitive_type" -> PrimitiveTypes
      [] key = "thickness" -> 0..MaxThickness
      [] key = "resolution" -> AppResolutions
      [] key = "iso_value" -> 0..MaxIso
      [] OTHER -> { DefaultWidgets[key] }

\* line 118: generate_button or 'mesh' not in st.session_state
should_generate(generate_button, session) ==
    generate_button \/ session.mesh.key = "absent"

\* lines 121-124
selected_field(primitive_type, scale, thickness) ==
    IF primitive_type = "Gyroid TPMS"
    THEN Gyroid(scale, thickness)
    ELSE SchwarzP(scale, thickness)

\* lines 127-144: what the outcome of generate_mesh leaves in the session.
\* `except Exception` catches every exception generate_mesh raises.
store_generation(session, out, primitive_type) ==
    IF out.status = "raised"
    THEN [session EXCEPT !.mesh = MeshIsNone]
    ELSE IF Len(out.mesh.vertices) > 0
    THEN [mesh |-> [key |-> "mesh", value |-> out.mesh],
          field |-> [key |-> "set", value |-> primitive_type]]
    ELSE [session EXCEPT !.mesh = MeshIsNone]

\* lines 147 and 184: 'mesh' in st.session_state and it is not None
mesh_shown(session) == session.mesh.key # "absent" /\ session.mesh.key # "None"

\* Streamlit ends a script run inside an st.* call when the user acts while
\* the run is under way (the control exception is a BaseException, which the
\* `except Exception` of line 142 lets through).  stopped_at tells where:
\*   "none"     the run reaches the end of the script, or is stopped where
\*              nothing is left to do (st.download_button, line 216, and
\*              the footer)
\*   "sidebar"  in a call of lines 34-119 (a widget, st.columns,
\*              st.subheader, st.spinner), before generate_mesh is called
\*   "message"  in st.success (line 138) or st.error (lines 140, 143),
\*              after generate_mesh; lines 136-137 come before st.success,
\*              lines 141 and 144 after st.error
\*   "display"  in st.plotly_chart (line 177), the figure having been built
\*              from the mesh (lines 148-175), or in st.info (line 179)
\*   "header"   in st.subheader (line 182), after the plot and before
\*              analyze_geometry (line 186)
\*   "metrics"  in an element call of lines 188-209, after analyze_geometry
\*              and before mesh.export (line 213), or in st.info (line 221)
\* The stop at lines 138-143 exists only in a run that generates.
StopPoints(generate) ==
    {"none", "sidebar", "display", "header", "metrics"}
    \cup (IF generate THEN {"message"} ELSE {})

\* one script run from line 118 on, given whether line 118 chose to generate,
\* the outcome `out` of generate_mesh and where the run was stopped: the
\* session afterwards; generated, whether generate_mesh was called, and
\* outcome, what it produced; shown_vertices, the number of vertices the
\* figure was built from (lines 148-175); plotted, analysed, exported:
\* whether st.plotly_chart (line 177) returned and whether analyze_geometry
\* (line 186) and mesh.export (line 213) were called.
script_result(session, primitive_type, generate, out, download_button, stopped_at) ==
    LET called == generate /\ stopped_at # "sidebar"
        stored == out.status # "raised" /\ Len(out.mesh.vertices) > 0
        written == called /\ (stored \/ stopped_at # "message")
        after == IF written
                 THEN store_generation(session, out, primitive_type)
                 ELSE session
        shown == stopped_at \notin {"sidebar", "message"} /\ mesh_shown(after)
        plotted == shown /\ stopped_at # "display"
        analysed == plotted /\ stopped_at # "header"
    IN  [session_state |-> after,
         generated |-> called,
         outcome |-> IF ~called THEN "none"
                     ELSE IF out.status = "raised" THEN "raised"
                     ELSE IF stored THEN "mesh"
                     ELSE "empty",
         exc |-> IF called THEN out.exc ELSE "none",
         plotted |-> plotted,
         analysed |-> analysed,
         exported |-> /\ analysed /\ stopped_at = "none" /\ download_button
                      /\ analyze_geometry(after.mesh.value).status = "returned",
         shown_vertices |-> IF shown THEN Len(after.mesh.value.vertices) ELSE 0]

\* one run of the script (lines 38-223) on the session as the last run left it;
\* generate_mesh is called only in a run that gets past line 118 with its
\* condition true
script_run(session, widgets, generate_button, download_button, stopped_at, installed, delaunay_raises) ==
    LET generate == should_generate(generate_button, session)
        outcomes ==
            IF generate /\ stopped_at # "sidebar"
            THEN {generate_mesh(selected_field(widgets.primitive_type, widgets.scale,
                                               widgets.thickness),
                                widgets.resolution, widgets.iso_value,
                                <<widgets.bounds_x, widgets.bounds_y, widgets.bounds_z>>,
                                installed, delaunay_raises)}
            ELSE {NoMeshOutcome}
    IN  CHOOSE r \in {script_result(session, widgets.primitive_type, generate, out,
                                    download_button, stopped_at) : out \in outcomes} : TRUE

\* the latest script run: its kind ("none" before the first), the widgets'
\* values, the Generate button, the session as the run found it, where the
\* run was stopped, what it did, and made_from, the primitive type selected in the run that
\* stored the session's mesh
NoRerun ==
    [kind |-> "none", widgets |-> DefaultWidgets, generate_button |-> FALSE,
     session_before |-> NewSession, stopped_at |-> "none",
     generated |-> FALSE, outcome |-> "none", exc |-> "none",
     plotted |-> FALSE, analysed |-> FALSE, exported |-> FALSE,
     shown_vertices |-> 0, made_from |-> ""]

Init ==
    /\ field \in Fields
    /\ skimage_installed \in BOOLEAN
    /\ request = NoRequest
    /\ gm = NoMeshOutcome
    /\ grid = NoGridOutcome
    /\ analysis = NoAnalysis
    /\ held = NoHeld
    /\ rearranged = NoRearranged
    /\ usage = NoUsage
    /\ session_state = NewSession
    /\ rerun = NoRerun

\* qhull is consulted by the fallback only, i.e. when scikit-image is missing
QhullVerdicts == IF skimage_installed THEN {FALSE} ELSE BOOLEAN

\* mesh = generate_mesh(field, resolution, iso_value, bounds)
GenerateMesh ==
    /\ request.op = "none"
    /\ \E resolution \in Resolutions, bounds \in BoundsChoices :
       /\ ExactStep(bounds, resolution)
       /\ \E iso_value \in IsoValues, delaunay_raises \in QhullVerdicts :
          /\ request' = [op |-> "generate_mesh", resolution |-> resolution,
                         iso_value |-> iso_value, bounds |-> bounds,
                         delaunay_raises |-> delaunay_raises]
          /\ gm' = generate_mesh(field, resolution, iso_value, bounds,
                                 skimage_installed, delaunay_raises)
    /\ UNCHANGED <<usage, session_state, rerun, field, skimage_installed, grid, analysis, held, rearranged>>

\* coords, values = field.evaluate_grid(x_range, y_range, z_range, resolution)
EvaluateGrid ==
    /\ request.op = "none"
    /\ \E resolution \in Resolutions, bounds \in AxisRanges \X AxisRanges \X AxisRanges :
          /\ ExactStep(bounds, resolution)
          /\ request' = [op |-> "evaluate_grid", resolution |-> resolution,
                         iso_value |-> 0, bounds |-> bounds,
                         delaunay_raises |-> FALSE]
          /\ grid' = evaluate_grid(field, bounds[1], bounds[2], bounds[3], resolution)
    /\ UNCHANGED <<usage, session_state, rerun, field, skimage_installed, gm, analysis, held, rearranged>>

\* analysis = analyze_geometry(mesh), on the mesh generate_mesh returned
AnalyzeGeometry ==
    /\ request.op = "generate_mesh"
    /\ gm.status = "returned"
    /\ request' = [request EXCEPT !.op = "analyze_geometry"]
    /\ analysis' = analyze_geometry(gm.mesh)
    /\ UNCHANGED <<usage, session_state, rerun, field, skimage_installed, gm, grid, held, rearranged>>

\* volume = calculate_volume(mesh), on a mesh the caller built
\* (tests/test_geometry.py: mesh = trimesh.creation.box(extents=[...]))
CalculateVolume ==
    /\ request.op = "none"
    /\ \E m \in HeldMeshes :
          LET mesh == Shaped(m.shape, m.extents, m.k)
          IN  held' = [shape |-> m.shape, extents |-> m.extents, k |-> m.k,
                       mesh |-> mesh, volume_x6 |-> calculate_volume(mesh)]
    /\ request' = [NoRequest EXCEPT !.op = "calculate_volume"]
    /\ UNCHANGED <<usage, session_state, rerun, field, skimage_installed, gm, grid, analysis, rearranged>>

\* analysis = analyze_geometry(mesh), on the mesh the caller built
AnalyzeMesh ==
    /\ request.op = "calculate_volume"
    /\ request' = [request EXCEPT !.op = "analyze_mesh"]
    /\ analysis' = analyze_geometry(held.mesh)
    /\ UNCHANGED <<usage, session_state, rerun, field, skimage_installed, gm, grid, held, rearranged>>

\* analyze_geometry on the same mesh with its vertices or faces rearranged
AnalyzeRearranged ==
    /\ request.op = "analyze_mesh"
    /\ \E how \in Rearrangements :
          LET mesh == Rearranged(held.mesh, how)
          IN  rearranged' = [how |-> how, mesh |-> mesh,
                             analysis |-> analyze_geometry(mesh)]
    /\ request' = [request EXCEPT !.op = "analyze_rearranged"]
    /\ UNCHANGED <<usage, session_state, rerun, field, skimage_installed, gm, grid, analysis, held>>

\* usage = estimate_material_usage(mesh, material_density, wall_thickness)
\* (tests/test_geometry.py: test_material_usage_estimation)
EstimateMaterialUsage ==
    /\ request.op = "none"
    /\ \E m \in UsageMeshes, material_density \in Densities,
          wall_thickness \in WallThicknesses :
          LET mesh == Shaped(m.shape, m.extents, m.k)
          IN  usage' = [shape |-> m.shape, extents |-> m.extents, mesh |-> mesh,
                        wall_thickness |-> wall_thickness,
                        result |-> estimate_material_usage(mesh, material_density,
                                                           wall_thickness)]
    /\ request' = [NoRequest EXCEPT !.op = "estimate_material_usage"]
    /\ UNCHANGED <<session_state, rerun, field, skimage_installed, gm, grid, analysis,
                   held, rearranged>>

\* the buttons the page shows: "Generate Geometry" always, "Download STL"
\* when the latest run drew it (line 209), that is when it ran to the end
\* with a mesh to show and analyze_geometry (line 186) returned
Buttons ==
    {"generate"} \cup (IF /\ rerun.analysed /\ rerun.stopped_at = "none"
                          /\ mesh_shown(session_state)
                          /\ analyze_geometry(session_state.mesh.value).status = "returned"
                       THEN {"download"} ELSE {})

\* Streamlit runs the script top to bottom with the given widget values,
\* `button` being the button whose press caused the run ("none": no button)
ScriptRun(kind, widgets, button) ==
    /\ \E stopped_at \in StopPoints(should_generate(button = "generate", session_state)) :
       \E delaunay_raises \in (IF should_generate(button = "generate", session_state)
                                  /\ stopped_at # "sidebar"
                               THEN QhullVerdicts ELSE {FALSE}) :
          \E r \in {script_run(session_state, widgets, button = "generate",
                              button = "download", stopped_at,
                              skimage_installed, delaunay_raises)} :
              /\ session_state' = r.session_state
              /\ rerun' = [kind |-> kind, widgets |-> widgets,
                            generate_button |-> button = "generate",
                            session_before |-> session_state,
                            stopped_at |-> stopped_at,
                            generated |-> r.generated, outcome |-> r.outcome,
                            exc |-> r.exc,
                            plotted |-> r.plotted, analysed |-> r.analysed,
                            exported |-> r.exported,
                            shown_vertices |-> r.shown_vertices,
                            made_from |-> IF r.outcome = "mesh"
                                          THEN widgets.primitive_type
                                          ELSE rerun.made_from]
    /\ UNCHANGED <<usage, field, skimage_installed, request, gm, grid, analysis,
                   held, rearranged>>

\* the page is opened: the first run, widgets at their defaults
FirstRun ==
    /\ rerun.kind = "none"
    /\ ScriptRun("first", rerun.widgets, "none")

\* the user moves one widget: a rerun with no button pressed
ChangeWidget ==
    /\ rerun.kind # "none"
    /\ \E key \in WidgetKeys : \E v \in WidgetValues(key) :
          LET widgets == [rerun.widgets EXCEPT ![key] = v]
          IN  /\ widgets # rerun.widgets
              /\ ExactStep(<<widgets.bounds_x, widgets.bounds_y, widgets.bounds_z>>,
                           widgets.resolution)
              /\ ScriptRun("widget", widgets, "none")

\* the user presses a button: a rerun with the widgets as they are and that
\* button True
PressButton ==
    /\ rerun.kind # "none"
    /\ \E button \in Buttons : ScriptRun(button, rerun.widgets, button)

\* the caller is done with the results and may issue the next call
Finish ==
    /\ request.op # "none"
    /\ request' = NoRequest
    /\ gm' = NoMeshOutcome
    /\ grid' = NoGridOutcome
    /\ analysis' = NoAnalysis
    /\ held' = NoHeld
    /\ rearranged' = NoRearranged
    /\ usage' = NoUsage
    /\ UNCHANGED <<session_state, rerun, field, skimage_installed>>

\* calls on a field: sampling, extraction, analysis of the extracted mesh
Next ==
    \/ GenerateMesh \/ EvaluateGrid \/ AnalyzeGeometry
    \/ Finish

Spec == Init /\ [][Next]_vars

\* calls of the analysis functions on meshes the caller built; they read
\* neither the field nor scikit-image, so the field is the default one
InitAnalysis == Init /\ field = TestScalarField(1, <<0, 0, 0>>)

NextAnalysis == CalculateVolume \/ AnalyzeMesh \/ AnalyzeRearranged \/ Finish

SpecAnalysis == InitAnalysis /\ [][NextAnalysis]_vars

\* calls of estimate_material_usage on meshes the caller built
NextMaterial == EstimateMaterialUsage \/ Finish

SpecMaterial == InitAnalysis /\ [][NextMaterial]_vars

\* the interactive app: a session from its first script run on
NextApp == FirstRun \/ ChangeWidget \/ PressButton

SpecApp == InitAnalysis /\ [][NextApp]_vars

(* ------------------------------ claims -------------------------------- *)
\* a generate_mesh call has been made (and perhaps its mesh analysed)
Generated == request.op \in {"generate_mesh", "analyze_geometry"}

\* the request meets the contract: resolution >= 2, every axis min < max
ValidBounds(bounds) == bounds = <<>> \/ \A a \in 1..3 : bounds[a][1] < bounds[a][2]
ValidRequest == request.resolution >= 2 /\ ValidBounds(request.bounds)

IsEmptyMesh(mesh) == Len(mesh.vertices) = 0 /\ Len(mesh.faces) = 0

\* the iso-value lies outside the range of the sampled values
IsoOutsideRange ==
    \/ \A k \in DOMAIN gm.field_values : gm.field_values[k] > request.iso_value * One
    \/ \A k \in DOMAIN gm.field_values : gm.field_values[k] < request.iso_value * One

\* C1: generate_mesh on a valid request whose iso-value lies outside the
\* range of the sampled field returns an empty mesh and raises nothing.
C1_EmptyMeshNotError ==
    (Generated /\ ValidRequest /\ IsoOutsideRange)
        => (gm.status = "returned" /\ IsEmptyMesh(gm.mesh))

\* C2: a generate_mesh or evaluate_grid request with resolution < 2 fails
\* and returns no mesh or grid.
C2_LowResolutionFails ==
    /\ (Generated /\ request.resolution < 2) => gm.status = "raised"
    /\ (request.op = "evaluate_grid" /\ request.resolution < 2) => grid.status = "raised"

\* C3: a request whose bounding box has min >= max on some axis fails and
\* returns no mesh or grid.
C3_BadBoundsFail ==
    /\ (Generated /\ ~ValidBounds(request.bounds)) => gm.status = "raised"
    /\ (request.op = "evaluate_grid" /\ ~ValidBounds(request.bounds))
          => grid.status = "raised"

\* C4: when generate_mesh raises on an invalid request, no call of the
\* field's evaluate has preceded the error.
C4_ErrorBeforeSampling ==
    (Generated /\ ~ValidRequest /\ gm.status = "raised") => gm.evaluate_calls = 0

\* C5: analyze_geometry of an empty mesh returns all-zero metrics and does
\* not fail.
C5_EmptyMeshAnalysis ==
    (request.op = "analyze_geometry" /\ IsEmptyMesh(gm.mesh))
        => /\ analysis.status = "returned"
           /\ analysis.bbox = ZeroBox
           /\ analysis.dimensions = [width |-> 0, height |-> 0, depth |-> 0]
           /\ analysis.vertex_count = 0
           /\ analysis.face_count = 0
           /\ analysis.edge_count = 0
           /\ ~analysis.is_watertight

\* C10: when the sampled grid has a value strictly below iso_value and one
\* strictly above it, generate_mesh returns a mesh with at least one vertex
\* and at least one face.
C10_CrossingGivesMesh ==
    ( /\ Generated /\ ValidRequest
      /\ \E k \in DOMAIN gm.field_values : gm.field_values[k] < request.iso_value * One
      /\ \E k \in DOMAIN gm.field_values : gm.field_values[k] > request.iso_value * One )
        => /\ gm.status = "returned"
           /\ Len(gm.mesh.vertices) >= 1
           /\ Len(gm.mesh.faces) >= 1

\* a mesh the caller built has been analysed
Analysed == request.op \in {"analyze_mesh", "analyze_rearranged"}

\* C11: for every mesh that is not watertight, calculate_volume and
\* analyze_geometry report volume 0 and is_volume false and do not fail; a
\* nonzero volume is reported only with is_volume, and is_volume only with
\* is_watertight.
C11_OpenMeshZeroVolume ==
    Analysed =>
        /\ ~Trimesh_is_watertight(held.mesh) =>
              /\ held.volume_x6 = 0
              /\ analysis.status = "returned"
              /\ analysis.volume_x6 = 0
              /\ ~analysis.is_volume
        /\ analysis.volume_x6 # 0 => analysis.is_volume
        /\ analysis.is_volume => analysis.is_watertight

\* the unordered vertex pairs joined by a side of face f
SidesOf(f) == {{f[1], f[2]}, {f[2], f[3]}, {f[3], f[1]}}

\* the faces of the mesh that have the pair e as a side
IncidentFaces(mesh, e) == {j \in 1..Len(mesh.faces) : e \in SidesOf(mesh.faces[j])}

EveryEdgeInTwoFaces(mesh) ==
    \A j \in 1..Len(mesh.faces) : \A e \in SidesOf(mesh.faces[j]) :
        Cardinality(IncidentFaces(mesh, e)) = 2

\* C12: analyze_geometry reports is_watertight = true exactly when every
\* unordered vertex-pair edge of the mesh is incident to exactly two faces.
C12_WatertightIffTwoFacesPerEdge ==
    (Analysed /\ analysis.status = "returned")
        => (analysis.is_watertight <=> EveryEdgeInTwoFaces(held.mesh))

\* a mesh with an edge in three faces has been analysed and reported as not
\* watertight
C12_Witness ==
    /\ Analysed /\ analysis.status = "returned" /\ ~analysis.is_watertight
    /\ \E j \in 1..Len(held.mesh.faces) : \E e \in SidesOf(held.mesh.faces[j]) :
          Cardinality(IncidentFaces(held.mesh, e)) >= 3

\* C13: for the box of trimesh.creation.box(extents=(a, b, c)),
\* calculate_volume returns a*b*c, the dimensions are width a, height b and
\* depth c, each the bounding box's max minus min on its axis, and
\* analyze_geometry reports the box as watertight.
C13_BoxMeasures ==
    (Analysed /\ held.shape = "box")
        => LET a == held.extents[1]
               b == held.extents[2]
               c == held.extents[3]
           IN  /\ held.volume_x6 = 6 * (a * b * c)
               /\ analysis.status = "returned"
               /\ analysis.volume_x6 = 6 * (a * b * c)
               /\ analysis.dimensions = [width |-> a, height |-> b, depth |-> c]
               /\ analysis.dimensions.width = analysis.bbox.x[2] - analysis.bbox.x[1]
               /\ analysis.dimensions.height = analysis.bbox.y[2] - analysis.bbox.y[1]
               /\ analysis.dimensions.depth = analysis.bbox.z[2] - analysis.bbox.z[1]
               /\ analysis.is_watertight

\* a box whose extents differ from axis to axis has been analysed
C13_Witness ==
    /\ Analysed /\ held.shape = "box"
    /\ held.extents[1] # held.extents[2] /\ held.extents[2] # held.extents[3]
    /\ analysis.volume_x6 > 0 /\ analysis.is_volume

\* an evaluate_grid call has returned its coordinates and values
Gridded == request.op = "evaluate_grid" /\ grid.status = "returned"

\* the point handed to evaluate for the point p: p * scale + offset
Transformed(f, p) ==
    <<p[1] * f.scale + f.offset[1], p[2] * f.scale + f.offset[2],
      p[3] * f.scale + f.offset[3]>>

\* C14: the callable form field(x, y, z) equals
\* evaluate(x*s + ox, y*s + oy, z*s + oz); applied to coordinate arrays it
\* gives one value per point, the value of the scalar call at that point;
\* with s = 1 and offset (0,0,0) it equals evaluate(x, y, z).
C14_CallTransformsThenEvaluates ==
    Gridded =>
        /\ Len(grid.values) = Len(grid.coords)
        /\ \A k \in 1..Len(grid.coords) :
              /\ grid.values[k] = evaluate(field, Transformed(field, grid.coords[k]))
              /\ (field.scale = 1 /\ field.offset = <<0, 0, 0>>)
                    => grid.values[k] = evaluate(field, grid.coords[k])

\* a field with a non-zero offset has been evaluated on a grid of points
C14_Witness ==
    /\ Gridded /\ Len(grid.values) >= 8
    /\ field.offset # <<0, 0, 0>>
    /\ \E k \in 1..Len(grid.coords) :
          grid.values[k] # evaluate(field, grid.coords[k])

\* the base formula of the TPMS field f at the point p
BaseFormula(f, p) ==
    IF f.kind = "Gyroid" THEN GyroidFormula(p) ELSE SchwarzPFormula(p)

\* C15: Gyroid and SchwarzP return |f| - thickness when thickness > 0 and
\* the base formula f unchanged when thickness = 0; with thickness t > 0
\* every value is >= -t.
C15_ThicknessShell ==
    (Gridded /\ field.kind \in {"Gyroid", "SchwarzP"})
        => \A k \in 1..Len(grid.coords) :
              LET f == BaseFormula(field, Transformed(field, grid.coords[k]))
                  v == grid.values[k]
              IN  /\ field.thickness > 0 =>
                        /\ v = float64((IF f < 0 THEN -f ELSE f) - field.thickness * One)
                        /\ v >= -field.thickness * One
                  /\ field.thickness = 0 => v = f

\* a Gyroid with positive thickness has been evaluated at a point where its
\* base formula is negative
C15_Witness ==
    /\ Gridded /\ field.kind = "Gyroid" /\ field.thickness > 0
    /\ \E k \in 1..Len(grid.coords) :
          BaseFormula(field, Transformed(field, grid.coords[k])) < 0

\* C16: for resolution n >= 2 and ranges with min < max, evaluate_grid
\* returns n^3 coordinates and n^3 values; the point with flat index
\* k = ix*n*n + iy*n + iz is (x_min + ix*dx, y_min + iy*dy, z_min + iz*dz)
\* with dx = (x_max - x_min)/(n - 1) etc., so that both ends of every axis
\* are sampled, and values[k] is the callable form at coords[k].
C16_GridLayout ==
    (Gridded /\ ValidRequest)
        => LET n == request.resolution
               lo == [a \in 1..3 |-> request.bounds[a][1]]
               hi == [a \in 1..3 |-> request.bounds[a][2]]
               d == [a \in 1..3 |-> (hi[a] - lo[a]) \div (n - 1)]
           IN  /\ Len(grid.coords) = n * n * n
               /\ Len(grid.values) = n * n * n
               /\ \A a \in 1..3 : d[a] * (n - 1) = hi[a] - lo[a]
               /\ \A ix \in 0..(n - 1), iy \in 0..(n - 1), iz \in 0..(n - 1) :
                     LET k == ix * n * n + iy * n + iz
                     IN  /\ grid.coords[k + 1] = <<lo[1] + ix * d[1], lo[2] + iy * d[2],
                                                   lo[3] + iz * d[3]>>
                         /\ grid.values[k + 1] = __call__(field, grid.coords[k + 1])
               /\ grid.coords[1] = <<lo[1], lo[2], lo[3]>>
               /\ grid.coords[n * n * n] = <<hi[1], hi[2], hi[3]>>

\* a grid of 27 points over ranges that differ between the x and y axes has
\* been returned
C16_Witness ==
    /\ Gridded /\ ValidRequest /\ request.resolution = 3
    /\ request.bounds[1] # request.bounds[2]
    /\ Len(grid.coords) = 27

\* C20: the surface area, the bounding box and the dimensions reported by
\* analyze_geometry are the same after the mesh's vertices are permuted
\* (the face indices following them) and after its faces are reordered.
C20_OrderIndependentMeasures ==
    (request.op = "analyze_rearranged" /\ analysis.status = "returned")
        => /\ rearranged.analysis.status = "returned"
           /\ rearranged.analysis.surface_area_x2 = analysis.surface_area_x2
           /\ rearranged.analysis.bbox = analysis.bbox
           /\ rearranged.analysis.dimensions = analysis.dimensions

\* an open box has been analysed before and after its vertices and its faces
\* were both put in reverse order
C20_Witness ==
    /\ request.op = "analyze_rearranged" /\ analysis.status = "returned"
    /\ held.shape = "open" /\ rearranged.how = "reverse_both"
    /\ rearranged.mesh.vertices # held.mesh.vertices
    /\ rearranged.mesh.faces # held.mesh.faces
    /\ analysis.surface_area_x2 > 0

(* ------------------------- material usage ------------------------------ *)
EstimatedUsage == request.op = "estimate_material_usage"

\* the wall thickness selects the shell: it is given and positive
ShellWanted == usage.wall_thickness # <<>> /\ usage.wall_thickness[1] > 0

\* C22: material_volume is surface area times wall thickness when a positive
\* wall thickness is given and the solid volume of calculate_volume
\* otherwise (None, 0, negative); mass is material_volume / 1000 times the
\* density; 'volume' is always the solid volume.  So a box with density > 0
\* and no wall thickness has volume > 0 and mass > 0, and a mesh that is not
\* a valid volume has solid mass 0.
C22_MaterialUsage ==
    EstimatedUsage =>
        LET r == usage.result
            solid_x6 == calculate_volume(usage.mesh)
        IN  /\ r.volume_x6 = solid_x6
            /\ ShellWanted =>
                 r.material_volume_x6
                     = 3 * Trimesh_area_x2(usage.mesh) * usage.wall_thickness[1]
            /\ ~ShellWanted => r.material_volume_x6 = solid_x6
            /\ r.mass_x6000 = r.material_volume_x6 * r.density
            /\ (usage.shape = "box" /\ ~ShellWanted) =>
                 /\ r.volume_x6
                      = 6 * usage.extents[1] * usage.extents[2] * usage.extents[3]
                 /\ r.volume_x6 > 0
                 /\ r.density > 0 => r.mass_x6000 > 0
            /\ (~Trimesh_is_volume(usage.mesh) /\ ~ShellWanted) => r.mass_x6000 = 0

\* a box given a wall thickness of 0: the solid volume is the material
C22_Witness ==
    /\ EstimatedUsage
    /\ usage.shape = "box"
    /\ usage.wall_thickness = <<0>>
    /\ usage.result.density > 0
    /\ usage.result.mass_x6000 > 0
    /\ usage.result.material_volume_x6 = usage.result.volume_x6

(* ----------------------- sign of the volume ---------------------------- *)
\* C24: calculate_volume never returns a negative value, whatever the mesh:
\* the empty mesh, a box, a box inside out (whose signed volume is
\* negative), a box with a face missing, flipped or listed twice; the
\* 'volume' entry of analyze_geometry is that value.
C24_VolumeNeverNegative ==
    /\ request.op \in {"calculate_volume", "analyze_mesh", "analyze_rearranged"} =>
         held.volume_x6 >= 0
    /\ (Analysed /\ analysis.status = "returned") => analysis.volume_x6 >= 0
    /\ (request.op = "analyze_rearranged" /\ rearranged.analysis.status = "returned") =>
         rearranged.analysis.volume_x6 >= 0

\* a closed box wound inside out: its signed volume is negative, the
\* reported volume is 0
C24_Witness ==
    /\ request.op = "calculate_volume"
    /\ held.shape = "inverted"
    /\ Trimesh_is_watertight(held.mesh)
    /\ Trimesh_volume_x6(held.mesh) < 0
    /\ held.volume_x6 = 0

(* ----------------------- the two extraction paths ---------------------- *)
\* the points the fallback finds near the iso-surface for the request
RequestNearPoints ==
    NearPoints(field, request.resolution, request.iso_value,
               IF request.bounds = <<>> THEN DefaultBounds ELSE request.bounds)

\* C25: generate_mesh takes the fallback only when the import of the primary
\* extractor fails; with the import succeeding, the extractor's error is the
\* call's outcome and no fallback result replaces it.  The fallback returns
\* the empty mesh, raising nothing, when fewer than 4 grid points lie near
\* the iso-surface or the triangulation fails.  Whichever path produced the
\* mesh, the returned mesh is the clean-up of it.
C25_FallbackOnlyOnImportError ==
    (Generated /\ request.resolution >= 0) =>
        /\ gm.path = "fallback" <=> ~skimage_installed
        /\ skimage_installed =>
             /\ gm.path = "primary"
             /\ gm.status = "raised"
             /\ gm.exc = marching_cubes_call(gm.field_values, request.resolution,
                                             request.iso_value, request.bounds).exc
             /\ gm.branch = "none"
        /\ (gm.path = "fallback"
              /\ (Len(RequestNearPoints) < MinPoints \/ request.delaunay_raises)) =>
             /\ gm.status = "returned"
             /\ IsEmptyMesh(gm.raw)
             /\ IsEmptyMesh(gm.mesh)
        /\ gm.status = "returned" =>
             /\ gm.cleaned
             /\ gm.mesh = cleanup(gm.raw)

\* scikit-image is installed and its extractor's TypeError reaches the caller
C25_Witness ==
    /\ request.op = "generate_mesh"
    /\ skimage_installed
    /\ request.resolution >= 2
    /\ gm.status = "raised" /\ gm.exc = "TypeError"
    /\ gm.path = "primary"

(* --------------------------- the interactive app ----------------------- *)
\* the script has run at least once in the session
SessionStarted == rerun.kind # "none"

\* C27: a script run that reaches line 118 generates exactly when Generate
\* was pressed or the session had no 'mesh' key; every generation outcome
\* writes the key, so every run after the first finds the key present; a
\* run without Generate after the first does not call generate_mesh and
\* leaves the session as it found it, whichever widget changed; and a
\* generation that gives an empty mesh or raises leaves None in 'mesh'.
C27_GenerationOnlyOnDemand ==
    SessionStarted =>
        /\ rerun.stopped_at # "sidebar" =>
             (rerun.generated <=>
                (rerun.generate_button \/ rerun.session_before.mesh.key = "absent"))
        /\ rerun.generated => session_state.mesh.key # "absent"
        /\ rerun.kind # "first" => rerun.session_before.mesh.key # "absent"
        /\ (rerun.kind # "first" /\ ~rerun.generate_button) =>
             /\ ~rerun.generated
             /\ session_state = rerun.session_before
        /\ rerun.outcome \in {"empty", "raised"} => session_state.mesh = MeshIsNone

====
